---- MODULE Spec2Model ----
(***************************************************************************)
(* The three notebooks of getting-started-with-gpus as one state machine.  *)
(*                                                                         *)
(*   torch-use-gpu.ipynb     kernel "U": picks a device, moves a tensor    *)
(*                           and a SimpleNet to it, trains for EPOCHS      *)
(*                           epochs and saves the weights file.            *)
(*   torch-test-model.ipynb  kernel "T": picks a device, builds a          *)
(*                           SimpleNet, loads the weights file and runs    *)
(*                           the inference cell as often as the user likes.*)
(*   tf-use-gpu.ipynb        kernel "TF": default and manual placement.    *)
(*                                                                         *)
(* Each kernel runs its code cells in document order.  A statement that    *)
(* raises ends its cell with the effects of the earlier statements kept;   *)
(* the kernel stays alive, so either the run stops there ("Run All") or    *)
(* the user goes on with the next cell (cell by cell).  The kernels share  *)
(* only the working directory.  Cells that neither bind a name the later   *)
(* cells read nor can raise (the shell commands, the imports, the value    *)
(* displays, the plot and the def cells) are not steps of the model.       *)
(*                                                                         *)
(* Abstractions: the weights of a SimpleNet are a symbolic value: the      *)
(* constructor call that drew the random initial weights and the sequence  *)
(* of optimizer steps applied since; the loss, the accuracy counters and   *)
(* the Adadelta accumulators are left out; the data sets are scaled down   *)
(* to TrainBatches / TestBatches full batches and TestItems test items.    *)
(***************************************************************************)
EXTENDS Integers, Sequences, FiniteSets, TLC

\* ---------------------------------------------------------------- bounds
TrainBatches == 2
TestBatches == 2
TestItems == 3
ProbDen == 20

\* ------------------------------------------------------ program constants
EPOCHS == 5
batch_size_U == 100
\* (variant: the class cell copied from the training notebook as it was)
batch_size_T_FromTraining == batch_size_U
batch_size_T == 1
NumClasses == 10
InFeatures == 784
\* the sizes of the FashionMNIST training and test sets
TrainSetSize == 60000
TestSetSize == 10000

CPU == "cpu"
CUDA0 == "cuda:0"
SaveName == "mnist_fashion_SimpleNet.pt"
LoadName == "mnist_fashion_SimpleNet.pt"
FileNames == {SaveName, LoadName}

TFCPU0 == "CPU:0"
TFGPU0 == "GPU:0"

Undef == [def |-> FALSE]
NoFile == [exists |-> FALSE]

VARIABLES
    fs,          \* the working directory: file name -> content
    \* ---- kernel U (torch-use-gpu)
    gpuU,        \* torch.cuda.is_available() in this kernel
    pcU,         \* the statement kernel U runs next
    runU,        \* "running", or "aborted" once a Run All stopped at an error
    errU,        \* the unhandled exceptions raised so far: <<cell, exception>>
    deviceU,     \* the global `device`
    X_train,     \* the global `X_train`
    X_test,      \* the global `X_test`
    newU,        \* the value of SimpleNet() before .to(device) is applied
    modelU,      \* the global `model`
    optimizerU,  \* the global `optimizer`
    epoch,       \* the loop variable of the training cell (0: loop not started)
    itU,         \* batches the running loader iterator has delivered
    batchU,      \* the locals data, target of train / test
    gradU,       \* the batches whose gradients are accumulated in .grad
    outputU,     \* the local `output`
    lossU,       \* the local `loss`
    callsU,      \* the call and return events of train and test, in order
    fwdU,        \* every forward call made: [fn, mdev, xdev, rows]
    snapU,       \* the parameters at the latest return of train
    \* ---- kernel T (torch-test-model)
    gpuT, pcT, runT, errT, deviceT, newT, modelT, loadedT,
    iterT,       \* `testing_iterator`: items delivered, or -1 before iter()
    imageT,      \* the globals image, label of the inference cell
    probsT,      \* the globals probs, gt_prob
    printedT,    \* what the completed runs of the inference cell printed
    fwdT,
    \* ---- kernel TF (tf-use-gpu)
    gpuTF, pcTF, placeTF

varsU == <<gpuU, pcU, runU, errU, deviceU, X_train, X_test, newU, modelU,
           optimizerU, epoch, itU, batchU, gradU, outputU, lossU, callsU, fwdU, snapU>>
varsT == <<gpuT, pcT, runT, errT, deviceT, newT, modelT, loadedT, iterT, imageT,
           probsT, printedT, fwdT>>
varsTF == <<gpuTF, pcTF, placeTF>>
vars == <<fs, varsU, varsT, varsTF>>

\* what the training cell works on, and what it leaves alone
loopU == <<epoch, itU, batchU, gradU, outputU, lossU, callsU, fwdU, snapU>>
envU == <<gpuU, deviceU, X_train, X_test, newU, optimizerU>>

\* ------------------------------------------------------ framework helpers

Min(a, b) == IF a < b THEN a ELSE b

\* torch.device("cuda:0" if torch.cuda.is_available() else "cpu")
\* (variant: the accelerator named without asking whether there is one)
ChooseDeviceAlwaysCuda(available) == CUDA0
ChooseDevice(available) == IF available THEN CUDA0 ELSE CPU

\* SimpleNet(): two linear layers, random initial weights, on the cpu, in
\* training mode.  `site` names the constructor call that drew the weights.
SimpleNet(site) ==
    [def |-> TRUE, dev |-> CPU, training |-> TRUE,
     layers |-> [fc1 |-> <<784, 784>>, fc2 |-> <<784, 10>>],
     params |-> [init |-> site, steps |-> <<>>]]

\* module.to(device)
ModuleTo(m, d) == [m EXCEPT !.dev = d]

\* model.state_dict(): the parameter tensors, by name, on the model's device
StateDict(m) == [exists |-> TRUE, layers |-> m.layers, params |-> m.params, dev |-> m.dev]

\* DataLoader(dataset, batch_size, shuffle=False): batch i (1-based) of a data
\* set of n items; the tensors a loader delivers are on the cpu.
NumBatches(n, bs) == (n + bs - 1) \div bs
Batch(n, bs, i) == [def |-> TRUE, idx |-> i, n |-> Min(bs, n - (i - 1) * bs), dev |-> CPU]
TensorTo(t, d) == [t EXCEPT !.dev = d]

LenTrainU == TrainBatches * batch_size_U
LenTestU == TestBatches * batch_size_U

\* SimpleNet.forward: x.view(batch_size, -1) needs batch_size rows of 784
\* values, and the linear layers need x on the device of the parameters.
\* x.view(bs, -1) of n items of 784 values needs n * 784 to be a multiple of
\* bs, and fc1 = nn.Linear(784, 784) needs the rows it gets to be 784 wide.
ShapeOk(n, bs) ==
    /\ (n * InFeatures) % bs = 0
    /\ (n * InFeatures) \div bs = InFeatures
ForwardOk(m, x, bs) == m.dev = x.dev /\ ShapeOk(x.n, bs)

\* The class the network scores highest for input x under parameters p, and the
\* softmax output (in units of 1/ProbDen): positive everywhere, summing to 1.
Peak(p, x) == (x + Len(p.steps) + (IF p.init = "U" THEN 0 ELSE 3)) % NumClasses
Softmax(p, x) ==
    [c \in 0 .. NumClasses - 1 |->
        IF c = Peak(p, x) THEN ProbDen - (NumClasses - 1) ELSE 1]

\* A statement of kernel U raised `exc` in `cell`: the cell ends; a Run All
\* stops, a user running cell by cell may go on with the cell at `next`.
RaiseU(cell, exc, next) ==
    /\ errU' = errU \cup {<<cell, exc>>}
    /\ \E stop \in BOOLEAN :
          IF stop THEN runU' = "aborted" /\ pcU' = pcU
                  ELSE runU' = runU /\ pcU' = next

\* --------------------------------------------------------------- kernel U

\* device = torch.device("cuda:0" if torch.cuda.is_available() else "cpu")
U_Device ==
    /\ runU = "running" /\ pcU = "device"
    /\ deviceU' = ChooseDevice(gpuU)
    /\ pcU' = "get_device_name"
    /\ UNCHANGED <<fs, gpuU, runU, errU, X_train, X_test, newU, modelU, optimizerU,
                   loopU>>
    /\ UNCHANGED <<varsT, varsTF>>

\* torch.cuda.get_device_name(0): initialises CUDA, which raises without a GPU
U_GetDeviceName ==
    /\ runU = "running" /\ pcU = "get_device_name"
    /\ IF gpuU
         THEN pcU' = "X_train" /\ UNCHANGED <<runU, errU>>
         ELSE RaiseU("get_device_name", "RuntimeError", "X_train")
    /\ UNCHANGED <<fs, gpuU, deviceU, X_train, X_test, newU, modelU, optimizerU,
                   loopU>>
    /\ UNCHANGED <<varsT, varsTF>>

\* X_train = torch.IntTensor([0, 30, 50, 75, 70])
\* (variant: the tensor created with device=device)
U_CreateXTrainOnDevice ==
    /\ runU = "running" /\ pcU = "X_train"
    /\ X_train' = [def |-> TRUE, dev |-> deviceU, data |-> <<0, 30, 50, 75, 70>>]
    /\ pcU' = "X_train.cuda"
    /\ UNCHANGED <<fs, gpuU, runU, errU, deviceU, X_test, newU, modelU, optimizerU,
                   loopU>>
    /\ UNCHANGED <<varsT, varsTF>>
U_CreateXTrain ==
    /\ runU = "running" /\ pcU = "X_train"
    /\ X_train' = [def |-> TRUE, dev |-> CPU, data |-> <<0, 30, 50, 75, 70>>]
    /\ pcU' = "X_train.cuda"
    /\ UNCHANGED <<fs, gpuU, runU, errU, deviceU, X_test, newU, modelU, optimizerU,
                   loopU>>
    /\ UNCHANGED <<varsT, varsTF>>

\* X_train = X_train.cuda()
\* (variant: the alternative the cell leaves commented out, X_train.to(device))
U_XTrainToDevice ==
    /\ runU = "running" /\ pcU = "X_train.cuda"
    /\ X_train' = [X_train EXCEPT !.dev = deviceU]
    /\ pcU' = "X_test"
    /\ UNCHANGED <<fs, gpuU, runU, errU, deviceU, X_test, newU, modelU, optimizerU,
                   loopU>>
    /\ UNCHANGED <<varsT, varsTF>>
U_XTrainCuda ==
    /\ runU = "running" /\ pcU = "X_train.cuda"
    /\ IF gpuU
         THEN /\ X_train' = [X_train EXCEPT !.dev = CUDA0]
              /\ pcU' = "X_test" /\ UNCHANGED <<runU, errU>>
         ELSE /\ RaiseU("X_train.cuda", "RuntimeError", "X_test")
              /\ UNCHANGED X_train
    /\ UNCHANGED <<fs, gpuU, deviceU, X_test, newU, modelU, optimizerU,
                   loopU>>
    /\ UNCHANGED <<varsT, varsTF>>

\* X_test = torch.cuda.IntTensor([30, 40, 50], device=device): the legacy CUDA
\* constructor refuses a cpu device and cannot run without CUDA.
U_CreateXTest ==
    /\ runU = "running" /\ pcU = "X_test"
    /\ IF gpuU /\ deviceU = CUDA0
         THEN /\ X_test' = [def |-> TRUE, dev |-> deviceU, data |-> <<30, 40, 50>>]
              /\ pcU' = "SimpleNet()" /\ UNCHANGED <<runU, errU>>
         ELSE /\ RaiseU("X_test", "RuntimeError", "SimpleNet()")
              /\ UNCHANGED X_test
    /\ UNCHANGED <<fs, gpuU, deviceU, X_train, newU, modelU, optimizerU,
                   loopU>>
    /\ UNCHANGED <<varsT, varsTF>>

\* model = SimpleNet().to(device), first half: the constructor call
U_NewModel ==
    /\ runU = "running" /\ pcU = "SimpleNet()"
    /\ newU' = SimpleNet("U")
    /\ pcU' = "model.to"
    /\ UNCHANGED <<fs, gpuU, runU, errU, deviceU, X_train, X_test, modelU, optimizerU,
                   loopU>>
    /\ UNCHANGED <<varsT, varsTF>>

\* model = SimpleNet().to(device), second half: .to(device) and the assignment
U_ModelTo ==
    /\ runU = "running" /\ pcU = "model.to"
    /\ modelU' = ModuleTo(newU, deviceU)
    /\ newU' = Undef
    /\ pcU' = "optimizer"
    /\ UNCHANGED <<fs, gpuU, runU, errU, deviceU, X_train, X_test, optimizerU,
                   loopU>>
    /\ UNCHANGED <<varsT, varsTF>>

\* EPOCHS = 5; optimizer = optim.Adadelta(model.parameters(), lr=0.01)
U_Optimizer ==
    /\ runU = "running" /\ pcU = "optimizer"
    /\ optimizerU' = [def |-> TRUE, lr_percent |-> 1]
    /\ pcU' = "for epoch"
    /\ UNCHANGED <<fs, gpuU, runU, errU, deviceU, X_train, X_test, newU, modelU, loopU>>
    /\ UNCHANGED <<varsT, varsTF>>

\* for epoch in range(1, EPOCHS + 1): print, then the call of train
\* (variant: range(1, EPOCHS))
EpochRangeShort == 1 .. EPOCHS - 1
EpochRange == 1 .. EPOCHS
U_ForEpoch ==
    /\ runU = "running" /\ pcU = "for epoch"
    /\ IF epoch + 1 \in EpochRange
         THEN epoch' = epoch + 1 /\ pcU' = "train"
         ELSE epoch' = epoch /\ pcU' = "save"
    /\ UNCHANGED <<fs, envU, runU, errU, modelU,
                   itU, batchU, gradU, outputU, lossU, callsU, fwdU, snapU>>
    /\ UNCHANGED <<varsT, varsTF>>

\* train(...): model.train(); print(device); the loop takes an iterator
U_TrainEnter ==
    /\ runU = "running" /\ pcU = "train"
    /\ modelU' = [modelU EXCEPT !.training = TRUE]
    /\ callsU' = Append(callsU, "train")
    /\ itU' = 0
    /\ pcU' = "train.next"
    /\ UNCHANGED <<fs, envU, runU, errU, epoch, batchU, gradU, outputU, lossU, fwdU, snapU>>
    /\ UNCHANGED <<varsT, varsTF>>

\* for batch_idx, (data, target) in enumerate(train_loader): the next batch,
\* or the end of the loop and the return of train
U_TrainNext ==
    /\ runU = "running" /\ pcU = "train.next"
    /\ IF itU < NumBatches(LenTrainU, batch_size_U)
         THEN /\ itU' = itU + 1
              /\ batchU' = [data |-> Batch(LenTrainU, batch_size_U, itU + 1),
                            target |-> Batch(LenTrainU, batch_size_U, itU + 1)]
              /\ pcU' = "train.to"
              /\ UNCHANGED <<callsU, snapU>>
         ELSE /\ callsU' = Append(callsU, "train.ret")
              /\ snapU' = modelU.params
              /\ pcU' = "test"
              /\ UNCHANGED <<itU, batchU>>
    /\ UNCHANGED <<fs, envU, runU, errU, modelU, epoch, gradU, outputU, lossU, fwdU>>
    /\ UNCHANGED <<varsT, varsTF>>

\* data, target = data.to(device), target.to(device)
\* (variant: the batch left where the loader put it)
U_TrainToDeviceForgotten ==
    /\ runU = "running" /\ pcU = "train.to"
    /\ pcU' = "train.zero_grad"
    /\ UNCHANGED <<fs, envU, runU, errU, modelU, epoch, itU, batchU, gradU, outputU, lossU,
                   callsU, fwdU, snapU>>
    /\ UNCHANGED <<varsT, varsTF>>
U_TrainToDevice ==
    /\ runU = "running" /\ pcU = "train.to"
    /\ batchU' = [data |-> TensorTo(batchU.data, deviceU),
                  target |-> TensorTo(batchU.target, deviceU)]
    /\ pcU' = "train.zero_grad"
    /\ UNCHANGED <<fs, envU, runU, errU, modelU, epoch, itU, gradU, outputU, lossU,
                   callsU, fwdU, snapU>>
    /\ UNCHANGED <<varsT, varsTF>>

\* optimizer.zero_grad()
\* (variant: the call left out, so .grad keeps what earlier batches put there)
U_TrainZeroGradForgotten ==
    /\ runU = "running" /\ pcU = "train.zero_grad"
    /\ pcU' = "train.forward"
    /\ UNCHANGED <<fs, envU, runU, errU, modelU, epoch, itU, batchU, gradU, outputU, lossU,
                   callsU, fwdU, snapU>>
    /\ UNCHANGED <<varsT, varsTF>>
U_TrainZeroGrad ==
    /\ runU = "running" /\ pcU = "train.zero_grad"
    /\ gradU' = {}
    /\ pcU' = "train.forward"
    /\ UNCHANGED <<fs, envU, runU, errU, modelU, epoch, itU, batchU, outputU, lossU,
                   callsU, fwdU, snapU>>
    /\ UNCHANGED <<varsT, varsTF>>

\* output = model(data); an exception leaves train and ends the training cell
U_TrainForward ==
    /\ runU = "running" /\ pcU = "train.forward"
    /\ fwdU' = fwdU \cup {[fn |-> "train", mdev |-> modelU.dev, xdev |-> batchU.data.dev,
                         rows |-> batchU.data.n]}
    /\ IF ForwardOk(modelU, batchU.data, batch_size_U)
         THEN /\ outputU' = [def |-> TRUE, dev |-> modelU.dev, n |-> batchU.data.n,
                             of |-> batchU.data.idx, grad |-> TRUE]
              /\ pcU' = "train.loss" /\ UNCHANGED <<runU, errU>>
         ELSE /\ RaiseU("for epoch", "RuntimeError", "save")
              /\ UNCHANGED outputU
    /\ UNCHANGED <<fs, envU, modelU, epoch, itU, batchU, gradU, lossU, callsU, snapU>>
    /\ UNCHANGED <<varsT, varsTF>>

\* loss = F.nll_loss(output, target)
U_TrainLoss ==
    /\ runU = "running" /\ pcU = "train.loss"
    /\ IF outputU.dev = batchU.target.dev /\ outputU.n = batchU.target.n
         THEN /\ lossU' = [def |-> TRUE, of |-> outputU.of, grad |-> outputU.grad]
              /\ pcU' = "train.backward" /\ UNCHANGED <<runU, errU>>
         ELSE /\ RaiseU("for epoch", "RuntimeError", "save")
              /\ UNCHANGED lossU
    /\ UNCHANGED <<fs, envU, modelU, epoch, itU, batchU, gradU, outputU, callsU, fwdU, snapU>>
    /\ UNCHANGED <<varsT, varsTF>>

\* loss.backward(): adds the gradient of this loss to the parameters' .grad
U_TrainBackward ==
    /\ runU = "running" /\ pcU = "train.backward"
    /\ gradU' = gradU \cup {lossU.of}
    /\ pcU' = "train.step"
    /\ UNCHANGED <<fs, envU, runU, errU, modelU, epoch, itU, batchU, outputU, lossU,
                   callsU, fwdU, snapU>>
    /\ UNCHANGED <<varsT, varsTF>>

\* optimizer.step(): one update of the parameters from what .grad holds
U_TrainStep ==
    /\ runU = "running" /\ pcU = "train.step"
    /\ modelU' = [modelU EXCEPT !.params.steps =
                     Append(@, [epoch |-> epoch, grad |-> gradU])]
    /\ pcU' = "train.next"
    /\ UNCHANGED <<fs, envU, runU, errU, epoch, itU, batchU, gradU, outputU, lossU,
                   callsU, fwdU, snapU>>
    /\ UNCHANGED <<varsT, varsTF>>

\* test(...): model.eval(); test_loss = 0; correct = 0; with torch.no_grad()
U_TestEnter ==
    /\ runU = "running" /\ pcU = "test"
    /\ modelU' = [modelU EXCEPT !.training = FALSE]
    /\ callsU' = Append(callsU, "test")
    /\ itU' = 0
    /\ pcU' = "test.next"
    /\ UNCHANGED <<fs, envU, runU, errU, epoch, batchU, gradU, outputU, lossU, fwdU, snapU>>
    /\ UNCHANGED <<varsT, varsTF>>

\* for data, target in test_loader: the next batch, or the end of the loop,
\* the report and the return of test
U_TestNext ==
    /\ runU = "running" /\ pcU = "test.next"
    /\ IF itU < NumBatches(LenTestU, batch_size_U)
         THEN /\ itU' = itU + 1
              /\ batchU' = [data |-> Batch(LenTestU, batch_size_U, itU + 1),
                            target |-> Batch(LenTestU, batch_size_U, itU + 1)]
              /\ pcU' = "test.to"
              /\ UNCHANGED callsU
         ELSE /\ callsU' = Append(callsU, "test.ret")
              /\ pcU' = "for epoch"
              /\ UNCHANGED <<itU, batchU>>
    /\ UNCHANGED <<fs, envU, runU, errU, modelU, epoch, gradU, outputU, lossU, fwdU, snapU>>
    /\ UNCHANGED <<varsT, varsTF>>

\* data, target = data.to(device), target.to(device)
U_TestToDevice ==
    /\ runU = "running" /\ pcU = "test.to"
    /\ batchU' = [data |-> TensorTo(batchU.data, deviceU),
                  target |-> TensorTo(batchU.target, deviceU)]
    /\ pcU' = "test.forward"
    /\ UNCHANGED <<fs, envU, runU, errU, modelU, epoch, itU, gradU, outputU, lossU,
                   callsU, fwdU, snapU>>
    /\ UNCHANGED <<varsT, varsTF>>

\* output = model(data), under no_grad
U_TestForward ==
    /\ runU = "running" /\ pcU = "test.forward"
    /\ fwdU' = fwdU \cup {[fn |-> "test", mdev |-> modelU.dev, xdev |-> batchU.data.dev,
                         rows |-> batchU.data.n]}
    /\ IF ForwardOk(modelU, batchU.data, batch_size_U)
         THEN /\ outputU' = [def |-> TRUE, dev |-> modelU.dev, n |-> batchU.data.n,
                             of |-> batchU.data.idx, grad |-> FALSE]
              /\ pcU' = "test.sum" /\ UNCHANGED <<runU, errU>>
         ELSE /\ RaiseU("for epoch", "RuntimeError", "save")
              /\ UNCHANGED outputU
    /\ UNCHANGED <<fs, envU, modelU, epoch, itU, batchU, gradU, lossU, callsU, snapU>>
    /\ UNCHANGED <<varsT, varsTF>>

\* test_loss += F.nll_loss(...).item(); pred = output.argmax(...); correct += ...
\* (variant: the body of train pasted into test, optimizer.step() included)
U_TestSumWithStep ==
    /\ runU = "running" /\ pcU = "test.sum"
    /\ modelU' = [modelU EXCEPT !.params.steps =
                     Append(@, [epoch |-> epoch, grad |-> gradU])]
    /\ pcU' = "test.next"
    /\ UNCHANGED <<fs, envU, runU, errU, loopU>>
    /\ UNCHANGED <<varsT, varsTF>>
U_TestSum ==
    /\ runU = "running" /\ pcU = "test.sum"
    /\ IF outputU.dev = batchU.target.dev /\ outputU.n = batchU.target.n
         THEN pcU' = "test.next" /\ UNCHANGED <<runU, errU>>
         ELSE RaiseU("for epoch", "RuntimeError", "save")
    /\ UNCHANGED <<fs, envU, modelU, loopU>>
    /\ UNCHANGED <<varsT, varsTF>>

\* torch.save(model.state_dict(), "mnist_fashion_SimpleNet.pt")
U_Save ==
    /\ runU = "running" /\ pcU = "save"
    /\ fs' = [fs EXCEPT ![SaveName] = StateDict(modelU)]
    /\ pcU' = "end"
    /\ UNCHANGED <<envU, runU, errU, modelU, loopU>>
    /\ UNCHANGED <<varsT, varsTF>>

\* --------------------------------------------------------------- kernel T

RaiseT(cell, exc, next) ==
    /\ errT' = errT \cup {<<cell, exc>>}
    /\ \E stop \in BOOLEAN :
          IF stop THEN runT' = "aborted" /\ pcT' = pcT
                  ELSE runT' = runT /\ pcT' = next

\* torch.load(name), no map_location: every tensor is restored to the device
\* it was saved from, which raises when that is a GPU and there is none.
TorchLoad(name, available) ==
    IF ~fs[name].exists THEN [ok |-> FALSE, exc |-> "FileNotFoundError"]
    ELSE IF fs[name].dev = CUDA0 /\ ~available THEN [ok |-> FALSE, exc |-> "RuntimeError"]
    ELSE [ok |-> TRUE, sd |-> fs[name]]

\* model.load_state_dict(sd), strict: the names and shapes must be the
\* model's; the values are copied into the parameters where they are.
LoadStateDictOk(m, sd) == sd.layers = m.layers
LoadStateDict(m, sd) == [m EXCEPT !.params = sd.params]

\* the FashionMNIST test set, item i (1-based): its label
LabelOf(i) == (7 * i + 2) % NumClasses

labels_map ==
    [c \in 0 .. NumClasses - 1 |->
        <<"T-Shirt", "Trouser", "Pullover", "Dress", "Coat", "Sandal", "Shirt",
          "Sneaker", "Bag", "Ankle Boot">>[c + 1]]

\* torch.argmax(probs): the first index holding the greatest value
ArgMax(f) ==
    CHOOSE c \in DOMAIN f :
        /\ \A d \in DOMAIN f : f[d] <= f[c]
        /\ \A d \in DOMAIN f : f[d] = f[c] => c <= d

\* device = torch.device("cuda:0" if torch.cuda.is_available() else "cpu")
T_Device ==
    /\ runT = "running" /\ pcT = "device"
    /\ deviceT' = ChooseDevice(gpuT)
    /\ pcT' = "SimpleNet()"
    /\ UNCHANGED <<gpuT, runT, errT, newT, modelT, loadedT, iterT, imageT, probsT,
                   printedT, fwdT>>
    /\ UNCHANGED <<fs, varsU, varsTF>>

\* model = SimpleNet().to( device ), first half: the constructor call
T_NewModel ==
    /\ runT = "running" /\ pcT = "SimpleNet()"
    /\ newT' = SimpleNet("T")
    /\ pcT' = "model.to"
    /\ UNCHANGED <<gpuT, runT, errT, deviceT, modelT, loadedT, iterT, imageT, probsT,
                   printedT, fwdT>>
    /\ UNCHANGED <<fs, varsU, varsTF>>

\* model = SimpleNet().to( device ), second half
T_ModelTo ==
    /\ runT = "running" /\ pcT = "model.to"
    /\ modelT' = ModuleTo(newT, deviceT)
    /\ newT' = Undef
    /\ pcT' = "load"
    /\ UNCHANGED <<gpuT, runT, errT, deviceT, loadedT, iterT, imageT, probsT,
                   printedT, fwdT>>
    /\ UNCHANGED <<fs, varsU, varsTF>>

\* model.load_state_dict( torch.load("mnist_fashion_SimpleNet.pt") )
\* (variant: a load that swallows its exceptions)
T_LoadIgnoreMissing ==
    /\ runT = "running" /\ pcT = "load"
    /\ LET r == TorchLoad(LoadName, gpuT) IN
         IF r.ok /\ LoadStateDictOk(modelT, r.sd)
           THEN modelT' = LoadStateDict(modelT, r.sd) /\ loadedT' = TRUE
           ELSE UNCHANGED <<modelT, loadedT>>
    /\ pcT' = "eval"
    /\ UNCHANGED <<gpuT, runT, errT, deviceT, newT, iterT, imageT, probsT, printedT, fwdT>>
    /\ UNCHANGED <<fs, varsU, varsTF>>
T_Load ==
    /\ runT = "running" /\ pcT = "load"
    /\ LET r == TorchLoad(LoadName, gpuT) IN
         IF ~r.ok
           THEN RaiseT("load", r.exc, "eval") /\ UNCHANGED <<modelT, loadedT>>
         ELSE IF ~LoadStateDictOk(modelT, r.sd)
           THEN RaiseT("load", "RuntimeError", "eval") /\ UNCHANGED <<modelT, loadedT>>
         ELSE /\ modelT' = LoadStateDict(modelT, r.sd)
              /\ loadedT' = TRUE
              /\ pcT' = "eval" /\ UNCHANGED <<runT, errT>>
    /\ UNCHANGED <<gpuT, deviceT, newT, iterT, imageT, probsT, printedT, fwdT>>
    /\ UNCHANGED <<fs, varsU, varsTF>>

\* model.eval()
T_Eval ==
    /\ runT = "running" /\ pcT = "eval"
    /\ modelT' = [modelT EXCEPT !.training = FALSE]
    /\ pcT' = "iter"
    /\ UNCHANGED <<gpuT, runT, errT, deviceT, newT, loadedT, iterT, imageT, probsT,
                   printedT, fwdT>>
    /\ UNCHANGED <<fs, varsU, varsTF>>

\* test_loader = DataLoader(testset, batch_size=batch_size, shuffle=False);
\* testing_iterator = iter(test_loader)
T_Iter ==
    /\ runT = "running" /\ pcT = "iter"
    /\ iterT' = 0
    /\ pcT' = "infer"
    /\ UNCHANGED <<gpuT, runT, errT, deviceT, newT, modelT, loadedT, imageT, probsT,
                   printedT, fwdT>>
    /\ UNCHANGED <<fs, varsU, varsTF>>

\* image, label = testing_iterator.next(); image = image.squeeze(0); print.
\* (.next() is the DataLoader iterator's alias of __next__ in the torch
\* releases of the notebook's time.)  An exhausted iterator raises.
\* (variant: next(iter(test_loader)), a fresh iterator in every run)
T_InferNextSameItem ==
    /\ runT = "running" /\ pcT = "infer"
    /\ IF iterT < NumBatches(TestItems, batch_size_T)
         THEN /\ iterT' = iterT + 1
              /\ imageT' = [def |-> TRUE, idx |-> 1,
                            n |-> Batch(TestItems, batch_size_T, 1).n,
                            dev |-> CPU, label |-> LabelOf(1)]
              /\ pcT' = "get_probs" /\ UNCHANGED <<runT, errT>>
         ELSE /\ RaiseT("infer", "StopIteration", "infer")
              /\ UNCHANGED <<iterT, imageT>>
    /\ UNCHANGED <<gpuT, deviceT, newT, modelT, loadedT, probsT, printedT, fwdT>>
    /\ UNCHANGED <<fs, varsU, varsTF>>
T_InferNext ==
    /\ runT = "running" /\ pcT = "infer"
    /\ IF iterT < NumBatches(TestItems, batch_size_T)
         THEN /\ iterT' = iterT + 1
              /\ imageT' = [def |-> TRUE, idx |-> iterT + 1,
                            n |-> Batch(TestItems, batch_size_T, iterT + 1).n,
                            dev |-> CPU, label |-> LabelOf(iterT + 1)]
              /\ pcT' = "get_probs" /\ UNCHANGED <<runT, errT>>
         ELSE /\ RaiseT("infer", "StopIteration", "infer")
              /\ UNCHANGED <<iterT, imageT>>
    /\ UNCHANGED <<gpuT, deviceT, newT, modelT, loadedT, probsT, printedT, fwdT>>
    /\ UNCHANGED <<fs, varsU, varsTF>>

\* probs, gt_prob = get_probs(model, image, label, device): the model and the
\* locals x, y go to `device`; output = model(x) under no_grad; squeeze
T_GetProbs ==
    /\ runT = "running" /\ pcT = "get_probs"
    /\ LET m == ModuleTo(modelT, deviceT)
           x == TensorTo(imageT, deviceT)
       IN /\ modelT' = m
          /\ fwdT' = fwdT \cup {[fn |-> "get_probs", mdev |-> m.dev, xdev |-> x.dev,
                                 rows |-> x.n]}
          /\ IF ForwardOk(m, x, batch_size_T)
               THEN /\ probsT' = [def |-> TRUE, dev |-> m.dev, of |-> x.idx, grad |-> FALSE,
                                  probs |-> Softmax(m.params, x.idx),
                                  gt_prob |-> Softmax(m.params, x.idx)[x.label]]
                    /\ pcT' = "print" /\ UNCHANGED <<runT, errT>>
               ELSE /\ RaiseT("infer", "RuntimeError", "infer")
                    /\ UNCHANGED probsT
    /\ UNCHANGED <<gpuT, deviceT, newT, loadedT, iterT, imageT, printedT>>
    /\ UNCHANGED <<fs, varsU, varsTF>>

\* plt.imshow(...); max_label = torch.argmax(probs);
\* print("Model predicted:", labels_map[max_label.item()],
\*       "with confidence % of", probs[max_label.item()].item())
\* print("Correct label is:", labels_map[label.item()])
\* The number printed is probs[max_label], a probability, kept as num / den.
T_Print ==
    /\ runT = "running" /\ pcT = "print"
    /\ LET max_label == ArgMax(probsT.probs) IN
         printedT' = Append(printedT,
            [item |-> imageT.idx,
             predicted |-> labels_map[max_label],
             class |-> max_label,
             number |-> [num |-> probsT.probs[max_label], den |-> ProbDen],
             correct |-> labels_map[imageT.label],
             params |-> modelT.params])
    /\ pcT' = "infer"
    /\ UNCHANGED <<gpuT, runT, errT, deviceT, newT, modelT, loadedT, iterT, imageT,
                   probsT, fwdT>>
    /\ UNCHANGED <<fs, varsU, varsTF>>

\* -------------------------------------------------------------- kernel TF

\* TensorFlow's placement of an op: the enclosing tf.device scope if there is
\* one, else the first GPU if one is detected, else the CPU.
NoScope == "none"
TFPlace(scope, gpu) ==
    IF scope # NoScope THEN scope ELSE IF gpu THEN TFGPU0 ELSE TFCPU0

\* x = tf.constant(...); y = tf.constant(...); z = tf.math.add(x, y); print(z)
TF_Default ==
    /\ pcTF = "default"
    /\ placeTF' = [placeTF EXCEPT !["x"] = TFPlace(NoScope, gpuTF),
                                  !["y"] = TFPlace(NoScope, gpuTF),
                                  !["z"] = TFPlace(NoScope, gpuTF)]
    /\ pcTF' = "manual"
    /\ UNCHANGED <<gpuTF, fs, varsU, varsT>>

\* with tf.device('/CPU:0'): a = ...; b = ...; print(a.device)
\* c = tf.matmul(a, b); print(c); print(c.device)
\* (variant: the matmul indented into the with block)
TF_ManualAllInScope ==
    /\ pcTF = "manual"
    /\ placeTF' = [placeTF EXCEPT !["a"] = TFPlace(TFCPU0, gpuTF),
                                  !["b"] = TFPlace(TFCPU0, gpuTF),
                                  !["c"] = TFPlace(TFCPU0, gpuTF)]
    /\ pcTF' = "end"
    /\ UNCHANGED <<gpuTF, fs, varsU, varsT>>
TF_Manual ==
    /\ pcTF = "manual"
    /\ placeTF' = [placeTF EXCEPT !["a"] = TFPlace(TFCPU0, gpuTF),
                                  !["b"] = TFPlace(TFCPU0, gpuTF),
                                  !["c"] = TFPlace(NoScope, gpuTF)]
    /\ pcTF' = "end"
    /\ UNCHANGED <<gpuTF, fs, varsU, varsT>>

\* ------------------------------------------------------- the state machine

Init ==
    /\ fs = [f \in FileNames |-> NoFile]
    /\ gpuU \in BOOLEAN /\ gpuT \in BOOLEAN /\ gpuTF \in BOOLEAN
    /\ pcU = "device" /\ runU = "running" /\ errU = {}
    /\ deviceU = "unset"
    /\ X_train = Undef /\ X_test = Undef /\ newU = Undef /\ modelU = Undef
    /\ optimizerU = Undef
    /\ epoch = 0 /\ itU = 0 /\ batchU = Undef /\ gradU = {}
    /\ outputU = Undef /\ lossU = Undef
    /\ callsU = <<>> /\ fwdU = {} /\ snapU = Undef
    /\ pcT = "device" /\ runT = "running" /\ errT = {}
    /\ deviceT = "unset"
    /\ newT = Undef /\ modelT = Undef /\ loadedT = FALSE
    /\ iterT = -1 /\ imageT = Undef /\ probsT = Undef
    /\ printedT = <<>> /\ fwdT = {}
    /\ pcTF = "default"
    /\ placeTF = [v \in {"x", "y", "z", "a", "b", "c"} |-> "unset"]

Next ==
    \/ U_Device \/ U_GetDeviceName \/ U_CreateXTrain \/ U_XTrainCuda \/ U_CreateXTest
    \/ U_NewModel \/ U_ModelTo \/ U_Optimizer \/ U_ForEpoch
    \/ U_TrainEnter \/ U_TrainNext \/ U_TrainToDevice \/ U_TrainZeroGrad
    \/ U_TrainForward \/ U_TrainLoss \/ U_TrainBackward \/ U_TrainStep
    \/ U_TestEnter \/ U_TestNext \/ U_TestToDevice \/ U_TestForward \/ U_TestSum
    \/ U_Save
    \/ T_Device \/ T_NewModel \/ T_ModelTo \/ T_Load \/ T_Eval \/ T_Iter
    \/ T_InferNext \/ T_GetProbs \/ T_Print
    \/ TF_Default \/ TF_Manual

Spec == Init /\ [][Next]_vars

\* ------------------------------------------------------------- properties

\* the statements of kernel U in document order
OrderU ==
    <<"device", "get_device_name", "X_train", "X_train.cuda", "X_test", "SimpleNet()",
      "model.to", "optimizer", "for epoch", "train", "train.next", "train.to",
      "train.zero_grad", "train.forward", "train.loss", "train.backward", "train.step",
      "test", "test.next", "test.to", "test.forward", "test.sum", "save", "end">>
RankU(l) == CHOOSE i \in 1 .. Len(OrderU) : OrderU[i] = l
\* kernel U has run the cell of statement l to its end, or to an exception
RanU(l) == RankU(pcU) > RankU(l) \/ (pcU = l /\ runU = "aborted")

\* C1: in both PyTorch notebooks `device` is assigned by the availability
\* check alone: it is cuda:0 exactly when a GPU is available and cpu
\* otherwise, it is set once the device cell has run, and no later step of
\* either notebook changes it.
C1_DeviceValue ==
    /\ pcU # "device" => deviceU = (IF gpuU THEN CUDA0 ELSE CPU)
    /\ pcT # "device" => deviceT = (IF gpuT THEN CUDA0 ELSE CPU)
    /\ pcU = "device" => deviceU = "unset"
    /\ pcT = "device" => deviceT = "unset"
C1_DeviceChosenOnce ==
    /\ []C1_DeviceValue
    /\ [][/\ deviceU' # deviceU => pcU = "device" /\ deviceU = "unset"
          /\ deviceT' # deviceT => pcT = "device" /\ deviceT = "unset"]_vars
C1_Witness ==
    /\ deviceU = CUDA0 /\ deviceT = CPU
    /\ pcU = "end" /\ Len(printedT) > 0

\* C2: once the training notebook has run to its end, running the load cell
\* of the companion notebook leaves its model with the parameters the weights
\* file holds, under the same file name and the same layer shapes.
C2_HandOff ==
    [][(pcU = "end" /\ pcT = "load" /\ runT = "running"
          /\ (pcT' # pcT \/ runT' # runT))
        => /\ SaveName = LoadName
           /\ fs[LoadName].exists
           /\ modelT'.layers = fs[LoadName].layers
           /\ modelT'.params = fs[LoadName].params
           /\ loadedT']_vars

\* C3: running the load cell while the weights file does not exist raises
\* FileNotFoundError and leaves the fresh model's parameters as they were;
\* every inference run after that uses those untrained parameters.
C3_Untrained(p) == p = SimpleNet("T").params
C3_MissingFile ==
    /\ [][(pcT = "load" /\ runT = "running" /\ ~fs[LoadName].exists
              /\ (pcT' # pcT \/ runT' # runT))
            => /\ <<"load", "FileNotFoundError">> \in errT'
               /\ modelT' = modelT
               /\ ~loadedT']_vars
    /\ [](<<"load", "FileNotFoundError">> \in errT
            => /\ ~loadedT
               /\ C3_Untrained(modelT.params)
               /\ \A k \in 1 .. Len(printedT) : C3_Untrained(printedT[k].params))
C3_Witness ==
    /\ <<"load", "FileNotFoundError">> \in errT
    /\ Len(printedT) > 0

\* C4 as stated: with device = cpu the notebook cannot get past its GPU-only
\* calls: no training step is made and the weights file is never written;
\* with device = cuda:0 no cell raises.
C4_Original ==
    /\ deviceU = CPU => /\ callsU = <<>>
                        /\ ~fs[SaveName].exists
    /\ deviceU = CUDA0 => errU = {}

\* C4 as amended: with device = cpu each of the three GPU-only cells raises
\* when it is run, the first before any training step, and a run that stops
\* at such an error has trained nothing and written no file; a run that goes
\* on past the three errors trains and saves on the cpu.  With device =
\* cuda:0 no cell raises and the run is never stopped.
C4_GpuOnlyCells == {"get_device_name", "X_train.cuda", "X_test"}
C4_Amended ==
    /\ deviceU = CPU =>
          /\ \A c \in C4_GpuOnlyCells : RanU(c) => <<c, "RuntimeError">> \in errU
          /\ errU \subseteq {<<c, "RuntimeError">> : c \in C4_GpuOnlyCells}
          /\ runU = "aborted" => /\ pcU \in C4_GpuOnlyCells
                                 /\ callsU = <<>>
                                 /\ ~fs[SaveName].exists
          /\ callsU # <<>> => \A c \in C4_GpuOnlyCells : <<c, "RuntimeError">> \in errU
          /\ pcU = "end" => fs[SaveName].exists /\ fs[SaveName].dev = CPU
    /\ deviceU = CUDA0 =>
          /\ errU = {} /\ runU = "running"
          /\ pcU = "end" => fs[SaveName].exists /\ fs[SaveName].dev = CUDA0
C4_Witness ==
    /\ deviceU = CPU
    /\ fs[SaveName].exists
    /\ Cardinality(errU) = 3

\* C5: every forward call made by train, test and get_probs finds the model's
\* parameters and the input tensor on the same device, which is `device`;
\* this holds for every batch of every epoch and for every inference run,
\* also once the weights have been loaded from the file.
C5_SameDevice ==
    /\ \A f \in fwdU : f.mdev = deviceU /\ f.xdev = deviceU
    /\ \A f \in fwdT : f.mdev = deviceT /\ f.xdev = deviceT
    /\ pcU \in {"train.forward", "test.forward"} =>
          modelU.dev = deviceU /\ batchU.data.dev = deviceU /\ batchU.target.dev = deviceU
    /\ modelU.def => modelU.dev = deviceU
    /\ modelT.def => modelT.dev = deviceT
    /\ <<"for epoch", "RuntimeError">> \notin errU
    /\ <<"infer", "RuntimeError">> \notin errT
C5_Witness ==
    /\ deviceU = CUDA0 /\ deviceT = CUDA0
    /\ {f.fn : f \in fwdU} = {"train", "test"}
    /\ epoch = EPOCHS /\ pcU = "end"
    /\ loadedT /\ fwdT # {} /\ Len(printedT) > 1

\* C6: X_train is on the cpu from its creation until the .cuda() cell has
\* completed and on the GPU from then on; a SimpleNet is on the cpu from
\* its construction until .to(device) is applied; no other step changes
\* the placement of the tensor or of a model.
C6_Placement ==
    /\ X_train.def <=> RankU(pcU) > RankU("X_train")
    /\ X_train.def =>
          X_train.dev = (IF RankU(pcU) > RankU("X_train.cuda")
                            /\ <<"X_train.cuda", "RuntimeError">> \notin errU
                         THEN CUDA0 ELSE CPU)
    /\ newU.def => newU.dev = CPU
    /\ newT.def => newT.dev = CPU
    /\ pcU = "model.to" => newU.def
    /\ pcT = "model.to" => newT.def
C7_RunsStarted == IF iterT < 0 THEN 0 ELSE iterT
C7_InOrder ==
    /\ C7_RunsStarted <= TestItems
    /\ Len(printedT) =
          (IF pcT \in {"get_probs", "print"} THEN C7_RunsStarted - 1 ELSE C7_RunsStarted)
    /\ pcT \in {"get_probs", "print"} => imageT.idx = iterT
    /\ \A k \in 1 .. Len(printedT) :
          /\ printedT[k].item = k
          /\ printedT[k].correct = labels_map[LabelOf(k)]
          /\ printedT[k].predicted = labels_map[Peak(printedT[k].params, k)]
    /\ <<"infer", "RuntimeError">> \notin errT
    /\ <<"infer", "StopIteration">> \in errT => Len(printedT) = TestItems
C7_Witness ==
    /\ Len(printedT) = TestItems
    /\ <<"infer", "StopIteration">> \in errT

\* C8: every run of the inference cell prints the class with the highest
\* probability get_probs returned, and beside it that class's probability
\* as a percentage (100 times the probability).
C8_IsPercentageOf(number, prob) == number.num * prob.den = 100 * prob.num * number.den
C8_PrintsPercentage ==
    \A k \in 1 .. Len(printedT) :
        LET probs == Softmax(printedT[k].params, printedT[k].item) IN
          /\ \A c \in DOMAIN probs : probs[c] <= probs[printedT[k].class]
          /\ printedT[k].predicted = labels_map[printedT[k].class]
          /\ C8_IsPercentageOf(printedT[k].number,
                               [num |-> probs[printedT[k].class], den |-> ProbDen])

\* C9: an op outside any tf.device scope is placed on the GPU when one is
\* detected and on the CPU otherwise; a and b, made inside
\* tf.device('/CPU:0'), are on CPU:0 either way, and the matmul after the
\* block is on the GPU exactly when one is detected.
C9_DefaultDevice == IF gpuTF THEN TFGPU0 ELSE TFCPU0
C9_Placement ==
    /\ pcTF # "default" => \A v \in {"x", "y", "z"} : placeTF[v] = C9_DefaultDevice
    /\ pcTF = "end" => /\ placeTF["a"] = TFCPU0 /\ placeTF["b"] = TFCPU0
                       /\ placeTF["c"] = C9_DefaultDevice
    /\ pcTF # "end" => \A v \in {"a", "b", "c"} : placeTF[v] = "unset"
C9_Witness ==
    /\ pcTF = "end" /\ gpuTF
    /\ placeTF["a"] = TFCPU0 /\ placeTF["c"] = TFGPU0

\* C10: the training cell makes exactly EPOCHS = 5 calls of train and 5 of
\* test, strictly alternating, each returning before the next call; the
\* weights file is written only after the fifth test has returned and holds
\* the parameters as they were when the fifth train returned.
C10_Events == <<"train", "train.ret", "test", "test.ret">>
C10_Expected == [i \in 1 .. 4 * 5 |-> C10_Events[((i - 1) % 4) + 1]]
C10_Epochs ==
    /\ Len(callsU) <= Len(C10_Expected)
    /\ \A i \in 1 .. Len(callsU) : callsU[i] = C10_Expected[i]
    /\ pcU \in {"save", "end"} => callsU = C10_Expected
    /\ fs[SaveName].exists <=> pcU = "end"
    /\ fs[SaveName].exists =>
          /\ callsU = C10_Expected
          /\ fs[SaveName].params = snapU
          /\ Len(snapU.steps) = 5 * NumBatches(LenTrainU, batch_size_U)
          /\ {snapU.steps[i].epoch : i \in 1 .. Len(snapU.steps)} = 1 .. 5
C10_Witness ==
    /\ fs[SaveName].exists
    /\ Len(callsU) = 20

\* C11: one call of train is one pass over train_loader: every batch is
\* taken exactly once, in data set order; for each batch the steps run in
\* the order to(device), zero_grad, forward, loss, backward, optimizer.step;
\* .grad is empty before every backward, so each of the updates, one per
\* batch, uses the gradient of its own batch only.
C11_NB == NumBatches(LenTrainU, batch_size_U)
C11_TrainSteps ==
    <<"train.next", "train.to", "train.zero_grad", "train.forward", "train.loss",
      "train.backward", "train.step", "train.next">>
C11_Updates ==
    /\ modelU.def =>
          \A i \in 1 .. Len(modelU.params.steps) :
              /\ modelU.params.steps[i].epoch = ((i - 1) \div C11_NB) + 1
              /\ modelU.params.steps[i].grad = {((i - 1) % C11_NB) + 1}
    /\ pcU \in {"train.to", "train.zero_grad", "train.forward", "train.loss",
                 "train.backward", "train.step"} =>
          /\ batchU.data.idx = itU /\ batchU.target.idx = itU
          /\ Len(modelU.params.steps) = (epoch - 1) * C11_NB + itU - 1
    /\ pcU \in {"train.forward", "train.loss", "train.backward"} => gradU = {}
    /\ pcU = "train.step" => gradU = {itU}
    /\ pcU = "train.next" => Len(modelU.params.steps) = (epoch - 1) * C11_NB + itU
    /\ (callsU # <<>> /\ callsU[Len(callsU)] = "train.ret") =>
          /\ itU = C11_NB
          /\ Len(modelU.params.steps) = epoch * C11_NB
C11_OnePass ==
    /\ []C11_Updates
    /\ [][pcU' # pcU /\ pcU \in {"train", "train.next", "train.to", "train.zero_grad",
                                  "train.forward", "train.loss", "train.backward",
                                  "train.step"} =>
            \/ pcU = "train" /\ pcU' = "train.next" /\ itU' = 0
            \/ pcU = "train.next" /\ pcU' = "test" /\ itU = C11_NB
            \/ /\ \E j \in 1 .. Len(C11_TrainSteps) - 1 :
                      pcU = C11_TrainSteps[j] /\ pcU' = C11_TrainSteps[j + 1]
               /\ pcU = "train.next" =>
                     itU < C11_NB /\ itU' = itU + 1 /\ batchU'.data.idx = itU + 1
               /\ pcU = "train.to" =>
                     batchU'.data.dev = deviceU /\ batchU'.target.dev = deviceU
               /\ pcU = "train.zero_grad" => gradU' = {}
               /\ pcU = "train.forward" => outputU'.of = itU
               /\ pcU = "train.loss" => lossU'.of = itU
               /\ pcU = "train.backward" =>
                     gradU' = {itU} /\ modelU'.params = modelU.params
               /\ pcU = "train.step" =>
                     modelU'.params.steps =
                        Append(modelU.params.steps, [epoch |-> epoch, grad |-> {itU}])
               /\ pcU # "train.step" => modelU'.params = modelU.params]_vars
C11_Witness ==
    /\ callsU # <<>> /\ callsU[Len(callsU)] = "train.ret"
    /\ epoch = 2
    /\ Len(modelU.params.steps) = 2 * C11_NB

\* C12: test and get_probs run their forward passes with gradients disabled
\* and make neither a backward nor an optimizer step: the parameters after
\* either call are the parameters before it, and .grad is left as it was; of
\* train, test and get_probs only train (its optimizer.step) changes them.
C12_TestSteps == {"test", "test.next", "test.to", "test.forward", "test.sum"}
C12_AfterTest ==
    (callsU # <<>> /\ callsU[Len(callsU)] \in {"test", "test.ret"}) =>
        modelU.params = snapU
C12_EvalFrame ==
    /\ []C12_AfterTest
    /\ [][/\ pcU \in C12_TestSteps =>
                modelU'.params = modelU.params /\ gradU' = gradU
          /\ pcU = "test.forward" /\ pcU' = "test.sum" => ~outputU'.grad
          /\ pcT = "get_probs" => modelT'.params = modelT.params
          /\ pcT = "get_probs" /\ pcT' = "print" => ~probsT'.grad
          /\ pcT = "print" => modelT' = modelT
          /\ (modelU.def /\ modelU'.params # modelU.params) => pcU = "train.step"]_vars
C12_Witness ==
    /\ callsU # <<>> /\ callsU[Len(callsU)] = "test.ret"
    /\ epoch = EPOCHS
    /\ Len(modelU.params.steps) > 0
    /\ loadedT /\ Len(printedT) > 0

\* C13: SimpleNet.forward reshapes its input to batch_size rows, so it
\* succeeds only on an input of exactly batch_size items; every batch the
\* loaders deliver has batch_size items, the last batch of a pass included
\* (60000 and 10000 items in batches of 100, 10000 items in batches of 1),
\* so no forward call of any epoch or inference run raises a shape error.
C13_OnlyBatchSize ==
    \A bs \in {batch_size_U, batch_size_T} :
        \A n \in 0 .. 2 * bs + 1 : ShapeOk(n, bs) <=> n = bs
C13_FullPass(n, bs) ==
    /\ NumBatches(n, bs) * bs = n
    /\ \A i \in 1 .. NumBatches(n, bs) : ShapeOk(Batch(n, bs, i).n, bs)
C13_RealPasses ==
    /\ C13_FullPass(TrainSetSize, batch_size_U)
    /\ C13_FullPass(TestSetSize, batch_size_U)
    /\ C13_FullPass(TestSetSize, batch_size_T)
C13_NoShapeError ==
    /\ C13_OnlyBatchSize
    /\ C13_RealPasses
    /\ pcU \in {"train.to", "train.zero_grad", "train.forward",
                 "test.to", "test.forward"} =>
          batchU.data.n = batch_size_U /\ batchU.target.n = batch_size_U
    /\ pcT = "get_probs" => imageT.n = batch_size_T
    /\ \A f \in fwdU : f.rows = batch_size_U
    /\ \A f \in fwdT : f.rows = batch_size_T
    /\ <<"for epoch", "RuntimeError">> \notin errU
    /\ <<"infer", "RuntimeError">> \notin errT
C13_Witness ==
    /\ pcU = "end" /\ epoch = EPOCHS
    /\ Cardinality(fwdU) = 2
    /\ Len(printedT) = TestItems

====
